---- MODULE Spec2Model ----
(***************************************************************************)
(* Model of the array-utils crate (src/src/lib.rs): pure functions over    *)
(* const-generic sized arrays.  A Rust array [T; N] is a TLA+ sequence of  *)
(* length N; the Rust index i is the TLA+ index i + 1.  A const generic    *)
(* size of an input array is Len of the sequence; a const generic size of  *)
(* an output array is an explicit last parameter of the operator.          *)
(*                                                                         *)
(* Every function is modelled as its loop, one recursion per iteration.    *)
(* A call ends either by returning a value or by panicking: an array index *)
(* out of bounds always panics, an overflowing usize addition or           *)
(* subtraction panics in a build with overflow checks (the debug and test  *)
(* profiles) and wraps modulo 2^w in a build without them (release).       *)
(***************************************************************************)
EXTENDS Integers, Sequences, FiniteSets, TLC

\* Largest array length of an input or output array.
MaxSize == 3
\* Array elements are 1..MaxVal; fill values are 0..MaxVal.
MaxVal == 2
\* usize::MAX of a target with 16-bit pointers; usize arithmetic is modulo
\* UsizeMax + 1.
UsizeMax == 65535

VARIABLES
    overflow_checks, \* the build's overflow-checks setting
    call,            \* the last call made: its name and its arguments
    ret              \* what that call did: panic or the returned value

vars == <<overflow_checks, call, ret>>

Elems == 1..MaxVal
Fills == 0..MaxVal
Sizes == 0..MaxSize
\* [T; n] for every n up to MaxSize
Arrays == UNION {[1..n -> Elems] : n \in Sizes}
\* values of a usize parameter: around the array sizes and at the top of usize
Usizes == (0..(MaxSize + 2)) \cup {UsizeMax - 1, UsizeMax}

\* [fill; n]
Repeat(fill, n) == [k \in 1..n |-> fill]

\* usize addition: ovf tells whether the exact sum leaves usize, val is the
\* wrapped sum.
add(x, y) == [ovf |-> x + y > UsizeMax, val |-> (x + y) % (UsizeMax + 1)]

\* usize subtraction: ovf tells whether the exact difference is negative,
\* val is the wrapped difference.
sub(x, y) == [ovf |-> x < y, val |-> (x - y + UsizeMax + 1) % (UsizeMax + 1)]

\* Whether an arithmetic step with overflow flag ovf panics in this build.
Overflows(ovf) == ovf /\ overflow_checks

\* the comparison dropped: the first size, whichever is smaller
min_of_sizes_first(x, y) == x

min_of_sizes(x, y) == IF x < y THEN x ELSE y

\* The state of a running loop: the output buffer, whether it has panicked,
\* whether it has left the loop by break, the indices it has tried to read
\* and to write so far, and the indices it has called the generator with.
Start(buffer) ==
    [buffer |-> buffer, panic |-> FALSE, done |-> FALSE, reads |-> {}, writes |-> {},
     calls |-> <<>>]

Panic(st) == [st EXCEPT !.panic = TRUE]

\* array[i] as a value expression: panics when i is out of bounds.
Read(st, name, array, i) ==
    [st EXCEPT !.reads = @ \cup {<<name, i>>}, !.panic = @ \/ i >= Len(array)]

\* buffer[i] = value: panics when i is out of bounds.
Write(st, name, i, value) ==
    IF i >= Len(st.buffer)
    THEN [st EXCEPT !.writes = @ \cup {<<name, i>>}, !.panic = TRUE]
    ELSE [st EXCEPT !.writes = @ \cup {<<name, i>>}, !.buffer[i + 1] = value]

\* The outcome of a call that returns an array: value is what it returns when
\* it does not panic.
Return(st, value) ==
    [panic |-> st.panic, value |-> value, reads |-> st.reads, writes |-> st.writes,
     calls |-> st.calls]

\* The outcome of a call that returns (array, usize).
ReturnWithIndex(st, value, index) ==
    [panic |-> st.panic, value |-> value, index |-> index, reads |-> st.reads,
     writes |-> st.writes, calls |-> st.calls]

----
\* The initialize functions.  A generator closure f is the sequence of the
\* values it returns for the indices 0..OUTPUT_SIZE - 1: f(i) is f[i + 1].

\* T::default() of the element type
Default == 0

\* Option<T>
None == [some |-> FALSE]
Some(value) == [some |-> TRUE, value |-> value]

\* Result<T, E>
Ok(value) == [ok |-> TRUE, payload |-> value]
Err(e) == [ok |-> FALSE, payload |-> e]

\* the generators of each kind, by the values they return for 0..n - 1
Generators == Arrays
OptionGenerators == UNION {[1..n -> {None} \cup {Some(v) : v \in Elems}] : n \in Sizes}
ResultGenerators ==
    UNION {[1..n -> {Ok(v) : v \in Elems} \cup {Err(e) : e \in Elems}] : n \in Sizes}

RECURSIVE initialize_from_loop(_, _, _, _)
\* for i in 0..OUTPUT_SIZE { buffer[i] = f(i); }
initialize_from_loop(st, f, OUTPUT_SIZE, i) ==
    IF st.panic \/ i >= OUTPUT_SIZE THEN st
    ELSE initialize_from_loop(Write([st EXCEPT !.calls = Append(@, i)], "buffer", i, f[i + 1]),
                              f, OUTPUT_SIZE, i + 1)

initialize_from(f, OUTPUT_SIZE) ==
    LET st == initialize_from_loop(Start(Repeat(Default, OUTPUT_SIZE)), f, OUTPUT_SIZE, 0)
    IN  Return(st, st.buffer)

RECURSIVE initialize_till_loop_writes_sentinel(_, _, _, _, _)
\* buffer[i] = value; if value == till { return (buffer, i); }: the sentinel
\* stored before the test
initialize_till_loop_writes_sentinel(st, f, till, OUTPUT_SIZE, i) ==
    IF st.panic \/ i >= OUTPUT_SIZE THEN ReturnWithIndex(st, st.buffer, OUTPUT_SIZE)
    ELSE LET called == Write([st EXCEPT !.calls = Append(@, i)], "buffer", i, f[i + 1])
         IN  IF f[i + 1] = till THEN ReturnWithIndex(called, called.buffer, i)
             ELSE initialize_till_loop_writes_sentinel(called, f, till, OUTPUT_SIZE, i + 1)

RECURSIVE initialize_till_loop(_, _, _, _, _)
\* for i in 0..OUTPUT_SIZE { let value = f(i);
\*     if value == till { return (buffer, i); }  buffer[i] = value; }
\* (buffer, OUTPUT_SIZE)
initialize_till_loop(st, f, till, OUTPUT_SIZE, i) ==
    IF st.panic \/ i >= OUTPUT_SIZE THEN ReturnWithIndex(st, st.buffer, OUTPUT_SIZE)
    ELSE LET called == [st EXCEPT !.calls = Append(@, i)]
         IN  IF f[i + 1] = till THEN ReturnWithIndex(called, called.buffer, i)
             ELSE initialize_till_loop(Write(called, "buffer", i, f[i + 1]),
                                       f, till, OUTPUT_SIZE, i + 1)

initialize_till(f, till, fill, OUTPUT_SIZE) ==
    initialize_till_loop(Start(Repeat(fill, OUTPUT_SIZE)), f, till, OUTPUT_SIZE, 0)

RECURSIVE initialize_from_option_loop_calls_twice(_, _, _, _)
\* if f(i).is_none() { return (buffer, i); }  buffer[i] = f(i).unwrap();
\* the generator called a second time for the value
initialize_from_option_loop_calls_twice(st, f, OUTPUT_SIZE, i) ==
    IF st.panic \/ i >= OUTPUT_SIZE THEN ReturnWithIndex(st, st.buffer, OUTPUT_SIZE)
    ELSE LET called == [st EXCEPT !.calls = Append(@, i)]
             again == [called EXCEPT !.calls = Append(@, i)]
         IN  IF ~f[i + 1].some THEN ReturnWithIndex(called, called.buffer, i)
             ELSE initialize_from_option_loop_calls_twice(
                      Write(again, "buffer", i, f[i + 1].value), f, OUTPUT_SIZE, i + 1)

RECURSIVE initialize_from_option_loop(_, _, _, _)
\* for i in 0..OUTPUT_SIZE { match f(i) {
\*     None => return (buffer, i), Some(value) => buffer[i] = value } }
\* (buffer, OUTPUT_SIZE)
initialize_from_option_loop(st, f, OUTPUT_SIZE, i) ==
    IF st.panic \/ i >= OUTPUT_SIZE THEN ReturnWithIndex(st, st.buffer, OUTPUT_SIZE)
    ELSE LET called == [st EXCEPT !.calls = Append(@, i)]
         IN  IF ~f[i + 1].some THEN ReturnWithIndex(called, called.buffer, i)
             ELSE initialize_from_option_loop(Write(called, "buffer", i, f[i + 1].value),
                                              f, OUTPUT_SIZE, i + 1)

initialize_from_option(f, fill, OUTPUT_SIZE) ==
    initialize_from_option_loop(Start(Repeat(fill, OUTPUT_SIZE)), f, OUTPUT_SIZE, 0)

RECURSIVE initialize_from_result_loop(_, _, _, _)
\* for i in 0..OUTPUT_SIZE { match f(i) {
\*     Err(_) => return (buffer, i), Ok(value) => buffer[i] = value } }
\* (buffer, OUTPUT_SIZE)
initialize_from_result_loop(st, f, OUTPUT_SIZE, i) ==
    IF st.panic \/ i >= OUTPUT_SIZE THEN ReturnWithIndex(st, st.buffer, OUTPUT_SIZE)
    ELSE LET called == [st EXCEPT !.calls = Append(@, i)]
         IN  IF ~f[i + 1].ok THEN ReturnWithIndex(called, called.buffer, i)
             ELSE initialize_from_result_loop(Write(called, "buffer", i, f[i + 1].payload),
                                              f, OUTPUT_SIZE, i + 1)

initialize_from_result(f, fill, OUTPUT_SIZE) ==
    initialize_from_result_loop(Start(Repeat(fill, OUTPUT_SIZE)), f, OUTPUT_SIZE, 0)

----
\* drift_to_end

\* buffer[SIZE - till + i] = array[i]: the margin left out of the index
drift_to_end_body_no_margin(st, array, till, margin, i) ==
    LET rd == Read(st, "array", array, i)
        b == sub(Len(array), till)
        c == add(b.val, i)
    IN  IF rd.panic THEN rd
        ELSE IF Overflows(b.ovf) \/ Overflows(c.ovf) THEN Panic(rd)
        ELSE Write(rd, "buffer", c.val, array[i + 1])

\* buffer[SIZE - margin - till + i] = array[i]
drift_to_end_body(st, array, till, margin, i) ==
    LET rd == Read(st, "array", array, i)
        a == sub(Len(array), margin)
        b == sub(a.val, till)
        c == add(b.val, i)
    IN  IF rd.panic THEN rd
        ELSE IF Overflows(a.ovf) \/ Overflows(b.ovf) \/ Overflows(c.ovf) THEN Panic(rd)
        ELSE Write(rd, "buffer", c.val, array[i + 1])

RECURSIVE drift_to_end_loop(_, _, _, _, _)
\* for i in 0..till
drift_to_end_loop(st, array, till, margin, i) ==
    IF st.panic \/ i >= till THEN st
    ELSE drift_to_end_loop(drift_to_end_body(st, array, till, margin, i),
                           array, till, margin, i + 1)

drift_to_end(array, till, margin, fill) ==
    LET st == drift_to_end_loop(Start(Repeat(fill, Len(array))), array, till, margin, 0)
    IN  Return(st, st.buffer)

----
\* drift_to_begin

\* if margin + i - from >= SIZE { break; }  buffer[margin + i - from] = array[i];
\* st.done records the break.
drift_to_begin_body(st, array, from, margin, i) ==
    LET a == add(margin, i)
        b == sub(a.val, from)
    IN  IF Overflows(a.ovf) \/ Overflows(b.ovf) THEN Panic(st)
        ELSE IF b.val >= Len(array) THEN [st EXCEPT !.done = TRUE]
        ELSE LET rd == Read(st, "array", array, i)
             IN  IF rd.panic THEN rd ELSE Write(rd, "buffer", b.val, array[i + 1])

RECURSIVE drift_to_begin_loop(_, _, _, _, _)
\* for i in from..SIZE
drift_to_begin_loop(st, array, from, margin, i) ==
    IF st.panic \/ st.done \/ i >= Len(array) THEN st
    ELSE drift_to_begin_loop(drift_to_begin_body(st, array, from, margin, i),
                             array, from, margin, i + 1)

drift_to_begin(array, from, margin, fill) ==
    LET st == drift_to_begin_loop(Start(Repeat(fill, Len(array))), array, from, margin, from)
    IN  Return(st, st.buffer)

----
\* array_resize

RECURSIVE array_resize_loop(_, _, _, _)
\* for i in 0..min_of_sizes(INPUT_SIZE, OUTPUT_SIZE) { buffer[i] = array[i]; }
array_resize_loop(st, array, end, i) ==
    IF st.panic \/ i >= end THEN st
    ELSE LET rd == Read(st, "array", array, i)
         IN  array_resize_loop(IF rd.panic THEN rd ELSE Write(rd, "buffer", i, array[i + 1]),
                               array, end, i + 1)

\* for i in 0..min_of_sizes(INPUT_SIZE, OUTPUT_SIZE) - 1: the last element
\* of the copied range left out
array_resize_one_short(array, fill, OUTPUT_SIZE) ==
    LET end == min_of_sizes(Len(array), OUTPUT_SIZE)
        st == array_resize_loop(Start(Repeat(fill, OUTPUT_SIZE)), array,
                                IF end > 0 THEN end - 1 ELSE 0, 0)
    IN  Return(st, st.buffer)

array_resize(array, fill, OUTPUT_SIZE) ==
    LET st == array_resize_loop(Start(Repeat(fill, OUTPUT_SIZE)), array,
                                min_of_sizes(Len(array), OUTPUT_SIZE), 0)
    IN  Return(st, st.buffer)

----
\* superimpose

\* main_array[i] = sub_array[i - starting_from]
superimpose_body(st, sub_array, starting_from, i) ==
    LET d == sub(i, starting_from)
    IN  IF Overflows(d.ovf) THEN Panic(st)
        ELSE LET rd == Read(st, "sub_array", sub_array, d.val)
             IN  IF rd.panic THEN rd
                 ELSE Write(rd, "main_array", i, sub_array[d.val + 1])

RECURSIVE superimpose_loop(_, _, _, _, _)
\* for i in starting_from..min_of_sizes(starting_from + SUB_SIZE, MAIN_SIZE)
superimpose_loop(st, sub_array, starting_from, end, i) ==
    IF st.panic \/ i >= end THEN st
    ELSE superimpose_loop(superimpose_body(st, sub_array, starting_from, i),
                          sub_array, starting_from, end, i + 1)

superimpose(main_array, sub_array, starting_from) ==
    LET e == add(starting_from, Len(sub_array))
        st == IF Overflows(e.ovf) THEN Panic(Start(main_array))
              ELSE superimpose_loop(Start(main_array), sub_array, starting_from,
                                    min_of_sizes(e.val, Len(main_array)), starting_from)
    IN  Return(st, st.buffer)

----
\* join

RECURSIVE join_left_loop(_, _, _, _)
\* for i in 0..min_of_sizes(LEFT_SIZE, RESULT_SIZE) { buffer[i] = left[i]; }
join_left_loop(st, left, end, i) ==
    IF st.panic \/ i >= end THEN st
    ELSE LET rd == Read(st, "left", left, i)
         IN  join_left_loop(IF rd.panic THEN rd ELSE Write(rd, "buffer", i, left[i + 1]),
                            left, end, i + 1)

\* buffer[i] = right[i]: right indexed by the position in the result
join_right_body_unshifted(st, right, LEFT_SIZE, i) ==
    LET d == sub(i, LEFT_SIZE)
    IN  IF Overflows(d.ovf) THEN Panic(st)
        ELSE IF d.val >= Len(right) THEN [st EXCEPT !.done = TRUE]
        ELSE LET rd == Read(st, "right", right, i)
             IN  IF rd.panic THEN rd ELSE Write(rd, "buffer", i, right[i + 1])

\* if i - LEFT_SIZE >= RIGHT_SIZE { break; }  buffer[i] = right[i - LEFT_SIZE];
join_right_body(st, right, LEFT_SIZE, i) ==
    LET d == sub(i, LEFT_SIZE)
    IN  IF Overflows(d.ovf) THEN Panic(st)
        ELSE IF d.val >= Len(right) THEN [st EXCEPT !.done = TRUE]
        ELSE LET rd == Read(st, "right", right, d.val)
             IN  IF rd.panic THEN rd ELSE Write(rd, "buffer", i, right[d.val + 1])

RECURSIVE join_right_loop(_, _, _, _, _)
\* for i in LEFT_SIZE..min_of_sizes(LEFT_SIZE + RIGHT_SIZE, RESULT_SIZE)
join_right_loop(st, right, LEFT_SIZE, end, i) ==
    IF st.panic \/ st.done \/ i >= end THEN st
    ELSE join_right_loop(join_right_body(st, right, LEFT_SIZE, i),
                         right, LEFT_SIZE, end, i + 1)

join(left, right, fill, RESULT_SIZE) ==
    LET s1 == join_left_loop(Start(Repeat(fill, RESULT_SIZE)), left,
                             min_of_sizes(Len(left), RESULT_SIZE), 0)
        e == add(Len(left), Len(right))
        s2 == IF s1.panic THEN s1
              ELSE IF Overflows(e.ovf) THEN Panic(s1)
              ELSE join_right_loop(s1, right, Len(left),
                                   min_of_sizes(e.val, RESULT_SIZE), Len(left))
    IN  Return(s2, s2.buffer)

----
\* splice

RECURSIVE splice_left_loop(_, _, _, _)
\* for i in 0..min_of_sizes(LEFT_SIZE, ORIGINAL_SIZE) { left[i] = original[i]; }
splice_left_loop(st, original, end, i) ==
    IF st.panic \/ i >= end THEN st
    ELSE LET rd == Read(st, "original", original, i)
         IN  splice_left_loop(IF rd.panic THEN rd ELSE Write(rd, "left", i, original[i + 1]),
                              original, end, i + 1)

\* right[i - LEFT_SIZE] = original[i - LEFT_SIZE]: right taken from the start
\* of original
splice_right_body_from_start(st, original, LEFT_SIZE, i) ==
    LET d == sub(i, LEFT_SIZE)
    IN  IF Overflows(d.ovf) THEN Panic(st)
        ELSE IF d.val >= Len(st.buffer) THEN [st EXCEPT !.done = TRUE]
        ELSE LET rd == Read(st, "original", original, d.val)
             IN  IF rd.panic THEN rd ELSE Write(rd, "right", d.val, original[d.val + 1])

\* if i - LEFT_SIZE >= RIGHT_SIZE { break; }  right[i - LEFT_SIZE] = original[i];
splice_right_body(st, original, LEFT_SIZE, i) ==
    LET d == sub(i, LEFT_SIZE)
    IN  IF Overflows(d.ovf) THEN Panic(st)
        ELSE IF d.val >= Len(st.buffer) THEN [st EXCEPT !.done = TRUE]
        ELSE LET rd == Read(st, "original", original, i)
             IN  IF rd.panic THEN rd ELSE Write(rd, "right", d.val, original[i + 1])

RECURSIVE splice_right_loop(_, _, _, _, _)
\* for i in LEFT_SIZE..min_of_sizes(LEFT_SIZE + RIGHT_SIZE, ORIGINAL_SIZE)
splice_right_loop(st, original, LEFT_SIZE, end, i) ==
    IF st.panic \/ st.done \/ i >= end THEN st
    ELSE splice_right_loop(splice_right_body(st, original, LEFT_SIZE, i),
                           original, LEFT_SIZE, end, i + 1)

\* The two output buffers are two loop states; the call panics when either
\* loop does, and returns the pair (left, right).
splice(original, fill, LEFT_SIZE, RIGHT_SIZE) ==
    LET l == splice_left_loop(Start(Repeat(fill, LEFT_SIZE)), original,
                              min_of_sizes(LEFT_SIZE, Len(original)), 0)
        e == add(LEFT_SIZE, RIGHT_SIZE)
        r == IF l.panic \/ Overflows(e.ovf) THEN Panic(Start(Repeat(fill, RIGHT_SIZE)))
             ELSE splice_right_loop(Start(Repeat(fill, RIGHT_SIZE)), original, LEFT_SIZE,
                                    min_of_sizes(e.val, Len(original)), LEFT_SIZE)
    IN  [panic |-> l.panic \/ r.panic, left |-> l.buffer, right |-> r.buffer,
         reads |-> l.reads \cup r.reads, writes |-> l.writes \cup r.writes]

----
\* sized_slice

\* buffer[i - from] = original[i] without the break at SLICE_SIZE
sized_slice_body_no_break(st, original, from, i) ==
    LET d == sub(i, from)
    IN  IF Overflows(d.ovf) THEN Panic(st)
        ELSE LET rd == Read(st, "original", original, i)
             IN  IF rd.panic THEN rd ELSE Write(rd, "buffer", d.val, original[i + 1])

\* if i - from >= SLICE_SIZE { break; }  buffer[i - from] = original[i];
sized_slice_body(st, original, from, i) ==
    LET d == sub(i, from)
    IN  IF Overflows(d.ovf) THEN Panic(st)
        ELSE IF d.val >= Len(st.buffer) THEN [st EXCEPT !.done = TRUE]
        ELSE LET rd == Read(st, "original", original, i)
             IN  IF rd.panic THEN rd ELSE Write(rd, "buffer", d.val, original[i + 1])

RECURSIVE sized_slice_loop(_, _, _, _, _)
\* for i in from..min_of_sizes(till, ORIGINAL_SIZE)
sized_slice_loop(st, original, from, end, i) ==
    IF st.panic \/ st.done \/ i >= end THEN st
    ELSE sized_slice_loop(sized_slice_body(st, original, from, i),
                          original, from, end, i + 1)

\* for i in from..till: the end of the range not clamped to ORIGINAL_SIZE
sized_slice_unclamped(original, from, till, fill, SLICE_SIZE) ==
    LET st == sized_slice_loop(Start(Repeat(fill, SLICE_SIZE)), original, from, till, from)
    IN  Return(st, st.buffer)

sized_slice(original, from, till, fill, SLICE_SIZE) ==
    LET st == sized_slice_loop(Start(Repeat(fill, SLICE_SIZE)), original, from,
                               min_of_sizes(till, Len(original)), from)
    IN  Return(st, st.buffer)

----
\* A program calls one function of the crate with arguments of its choice;
\* the functions share no state, so one call from the idle state is every
\* behaviour of the crate for those arguments.
Idle == call.op = "none"

Init ==
    /\ overflow_checks \in BOOLEAN
    /\ call = [op |-> "none"]
    /\ ret = Return(Start(<<>>), <<>>)

CallDriftToEnd ==
    /\ Idle
    /\ \E array \in Arrays, till \in Usizes, margin \in Usizes, fill \in Fills :
        /\ call' = [op |-> "drift_to_end", array |-> array, till |-> till,
                    margin |-> margin, fill |-> fill]
        /\ ret' = drift_to_end(array, till, margin, fill)
    /\ UNCHANGED overflow_checks

CallDriftToBegin ==
    /\ Idle
    /\ \E array \in Arrays, from \in Usizes, margin \in Usizes, fill \in Fills :
        /\ call' = [op |-> "drift_to_begin", array |-> array, from |-> from,
                    margin |-> margin, fill |-> fill]
        /\ ret' = drift_to_begin(array, from, margin, fill)
    /\ UNCHANGED overflow_checks

CallArrayResize ==
    /\ Idle
    /\ \E array \in Arrays, fill \in Fills, OUTPUT_SIZE \in Sizes :
        /\ call' = [op |-> "array_resize", array |-> array, fill |-> fill,
                    OUTPUT_SIZE |-> OUTPUT_SIZE]
        /\ ret' = array_resize(array, fill, OUTPUT_SIZE)
    /\ UNCHANGED overflow_checks

CallSuperimpose ==
    /\ Idle
    /\ \E main_array \in Arrays, sub_array \in Arrays, starting_from \in Usizes :
        /\ call' = [op |-> "superimpose", main_array |-> main_array,
                    sub_array |-> sub_array, starting_from |-> starting_from]
        /\ ret' = superimpose(main_array, sub_array, starting_from)
    /\ UNCHANGED overflow_checks

CallJoin ==
    /\ Idle
    /\ \E left \in Arrays, right \in Arrays, fill \in Fills,
          RESULT_SIZE \in 0..(2 * MaxSize + 1) :
        /\ call' = [op |-> "join", left |-> left, right |-> right, fill |-> fill,
                    RESULT_SIZE |-> RESULT_SIZE]
        /\ ret' = join(left, right, fill, RESULT_SIZE)
    /\ UNCHANGED overflow_checks

CallSplice ==
    /\ Idle
    /\ \E original \in Arrays, fill \in Fills, LEFT_SIZE \in Sizes, RIGHT_SIZE \in Sizes :
        /\ call' = [op |-> "splice", original |-> original, fill |-> fill,
                    LEFT_SIZE |-> LEFT_SIZE, RIGHT_SIZE |-> RIGHT_SIZE]
        /\ ret' = splice(original, fill, LEFT_SIZE, RIGHT_SIZE)
    /\ UNCHANGED overflow_checks

CallSizedSlice ==
    /\ Idle
    /\ \E original \in Arrays, from \in Usizes, till \in Usizes, fill \in Fills,
          SLICE_SIZE \in 0..(MaxSize + 1) :
        /\ call' = [op |-> "sized_slice", original |-> original, from |-> from,
                    till |-> till, fill |-> fill, SLICE_SIZE |-> SLICE_SIZE]
        /\ ret' = sized_slice(original, from, till, fill, SLICE_SIZE)
    /\ UNCHANGED overflow_checks

CallInitializeFrom ==
    /\ Idle
    /\ \E f \in Generators :
        /\ call' = [op |-> "initialize_from", f |-> f, OUTPUT_SIZE |-> Len(f)]
        /\ ret' = initialize_from(f, Len(f))
    /\ UNCHANGED overflow_checks

CallInitializeTill ==
    /\ Idle
    /\ \E f \in Generators, till \in Fills, fill \in Fills :
        /\ call' = [op |-> "initialize_till", f |-> f, till |-> till, fill |-> fill,
                    OUTPUT_SIZE |-> Len(f)]
        /\ ret' = initialize_till(f, till, fill, Len(f))
    /\ UNCHANGED overflow_checks

CallInitializeFromOption ==
    /\ Idle
    /\ \E f \in OptionGenerators, fill \in Fills :
        /\ call' = [op |-> "initialize_from_option", f |-> f, fill |-> fill,
                    OUTPUT_SIZE |-> Len(f)]
        /\ ret' = initialize_from_option(f, fill, Len(f))
    /\ UNCHANGED overflow_checks

CallInitializeFromResult ==
    /\ Idle
    /\ \E f \in ResultGenerators, fill \in Fills :
        /\ call' = [op |-> "initialize_from_result", f |-> f, fill |-> fill,
                    OUTPUT_SIZE |-> Len(f)]
        /\ ret' = initialize_from_result(f, fill, Len(f))
    /\ UNCHANGED overflow_checks

Next ==
    \/ CallInitializeFrom
    \/ CallInitializeTill
    \/ CallInitializeFromOption
    \/ CallInitializeFromResult
    \/ CallDriftToEnd
    \/ CallDriftToBegin
    \/ CallArrayResize
    \/ CallSuperimpose
    \/ CallJoin
    \/ CallSplice
    \/ CallSizedSlice

Spec == Init /\ [][Next]_vars

----
\* The claims.  Rust index i of an array is index i + 1 of its sequence.

Ops == {"initialize_from", "initialize_till", "initialize_from_option",
        "initialize_from_result", "drift_to_begin", "drift_to_end", "sized_slice",
        "array_resize", "superimpose", "join", "splice"}

\* C1: uniform boundary policy: every call of every operation, with any sizes
\* and any values of from, till, margin and starting_from, returns a result:
\* it does not panic on an index out of bounds or on an overflowing index
\* computation.
UniformBoundaryPolicy == call.op \in Ops => ~ret.panic

\* C2: drift_to_end returns [fill; SIZE] whenever till == 0 or margin >= SIZE.
DriftToEndAllFill ==
    (call.op = "drift_to_end" /\ (call.till = 0 \/ call.margin >= Len(call.array)))
        => (~ret.panic /\ ret.value = Repeat(call.fill, Len(call.array)))

\* The array the claims give for drift_to_begin: position margin + k holds
\* seq[from + k] when from + k < SIZE, every other position holds fill.
DriftToBeginExpected(seq, from, margin, fill) ==
    [j \in 1..Len(seq) |->
        IF j - 1 >= margin /\ from + (j - 1 - margin) < Len(seq)
        THEN seq[from + (j - 1 - margin) + 1]
        ELSE fill]

\* superimpose([fill; SIZE], sized_slice(seq, from, SIZE, fill), margin), the
\* slice of length SIZE
SliceThenSuperimpose(seq, from, margin, fill) ==
    LET slice == sized_slice(seq, from, Len(seq), fill, Len(seq))
    IN  IF slice.panic THEN slice
        ELSE superimpose(Repeat(fill, Len(seq)), slice.value, margin)

\* C3: for every seq, from, margin and fill, drift_to_begin returns what
\* superimpose([fill; SIZE], sized_slice(seq, from, SIZE, fill), margin)
\* returns: result[margin + k] = seq[from + k] when both indices are below
\* SIZE, fill everywhere else, hence all fill when margin >= SIZE or
\* from >= SIZE.
DriftToBeginIsSliceThenSuperimpose ==
    call.op = "drift_to_begin" =>
        LET expected == DriftToBeginExpected(call.array, call.from, call.margin, call.fill)
            composed == SliceThenSuperimpose(call.array, call.from, call.margin, call.fill)
        IN  /\ ~ret.panic
            /\ ret.value = expected
            /\ ~composed.panic
            /\ composed.value = ret.value
            /\ (call.margin >= Len(call.array) \/ call.from >= Len(call.array))
                   => ret.value = Repeat(call.fill, Len(call.array))

\* The array the claims give for drift_to_end when till + margin <= SIZE:
\* position SIZE - margin - till + i holds seq[i] for i < till, every other
\* position holds fill.
DriftToEndExpected(seq, till, margin, fill) ==
    [j \in 1..Len(seq) |->
        IF /\ j - 1 >= Len(seq) - margin - till
           /\ j - 1 < Len(seq) - margin
        THEN seq[j - 1 - (Len(seq) - margin - till) + 1]
        ELSE fill]

\* C4: when till + margin <= SIZE, drift_to_end is right-aligned:
\* result[SIZE - margin - till + i] = seq[i] for i < till (seq[till - 1] lands
\* at SIZE - margin - 1), fill everywhere else, the last margin positions
\* included; it is superimpose([fill; SIZE], seq[0..till], SIZE - margin - till).
DriftToEndRightAligned ==
    (call.op = "drift_to_end" /\ call.till + call.margin <= Len(call.array)) =>
        LET SIZE == Len(call.array)
            head == SubSeq(call.array, 1, call.till)
            composed == superimpose(Repeat(call.fill, SIZE), head,
                                    SIZE - call.margin - call.till)
        IN  /\ ~ret.panic
            /\ ret.value = DriftToEndExpected(call.array, call.till, call.margin, call.fill)
            /\ \A i \in 0..(call.till - 1) :
                   ret.value[SIZE - call.margin - call.till + i + 1] = call.array[i + 1]
            /\ \A j \in (SIZE - call.margin + 1)..SIZE : ret.value[j] = call.fill
            /\ ~composed.panic
            /\ composed.value = ret.value

\* A drift_to_end call that moves elements and leaves both a filled prefix
\* and a filled margin.
DriftToEndRightAlignedWitness ==
    /\ call.op = "drift_to_end"
    /\ Len(call.array) = MaxSize
    /\ call.till > 0
    /\ call.margin > 0
    /\ call.till + call.margin < Len(call.array)
    /\ ~ret.panic
    /\ call.fill \notin {call.array[k] : k \in 1..Len(call.array)}
\* What splice returns for what join returned, ORIG == RESULT, LEFT == L and
\* RIGHT == R, with splice's own fill.
SpliceOfJoin(fill2) == splice(ret.value, fill2, Len(call.left), Len(call.right))

\* C5 as stated: join followed by splice with LEFT == L, RIGHT == R and
\* ORIG == RESULT returns exactly (left, right), whatever RESULT is.
JoinSpliceRoundTripAnyResult ==
    (call.op = "join" /\ ~ret.panic) =>
        \A fill2 \in Fills :
            /\ ~SpliceOfJoin(fill2).panic
            /\ SpliceOfJoin(fill2).left = call.left
            /\ SpliceOfJoin(fill2).right = call.right

\* C5 as amended: join followed by splice with LEFT == L, RIGHT == R and
\* ORIG == RESULT returns exactly (left, right) provided RESULT >= L + R; with
\* a smaller RESULT the elements join dropped (positions >= RESULT of left
\* followed by right) come back as splice's fill, the others unchanged.
JoinSpliceRoundTrip ==
    (call.op = "join" /\ ~ret.panic) =>
        \A fill2 \in Fills :
            LET L == Len(call.left)
                R == Len(call.right)
                back == SpliceOfJoin(fill2)
            IN  /\ ~back.panic
                /\ call.RESULT_SIZE >= L + R =>
                       (back.left = call.left /\ back.right = call.right)
                /\ back.left = [j \in 1..L |->
                       IF j - 1 < call.RESULT_SIZE THEN call.left[j] ELSE fill2]
                /\ back.right = [j \in 1..R |->
                       IF L + j - 1 < call.RESULT_SIZE THEN call.right[j] ELSE fill2]

\* A join into a result with room for both arrays and fill after them, the
\* fill different from splice's.
JoinSpliceRoundTripWitness ==
    /\ call.op = "join"
    /\ ~ret.panic
    /\ Len(call.left) > 0
    /\ Len(call.right) > 0
    /\ call.RESULT_SIZE > Len(call.left) + Len(call.right)
    /\ call.fill \notin {call.right[k] : k \in 1..Len(call.right)}
    /\ \E fill2 \in Fills \ {call.fill} :
           /\ SpliceOfJoin(fill2).left = call.left
           /\ SpliceOfJoin(fill2).right = call.right

\* C6: superimpose(main, sub, k) returns main with result[i] = sub[i - k] for
\* every i in [k, min(k + SUB, MAIN)) and result[i] = main[i] for every other
\* i; when k >= MAIN the result is main.
SuperimposeFrame ==
    call.op = "superimpose" =>
        LET main == call.main_array
            k == call.starting_from
        IN  /\ ~ret.panic
            /\ ret.value = [j \in 1..Len(main) |->
                   IF j - 1 >= k /\ j - 1 < k + Len(call.sub_array)
                   THEN call.sub_array[j - 1 - k + 1]
                   ELSE main[j]]
            /\ k >= Len(main) => ret.value = main

\* C7: sized_slice, for every from and till (from > till, from >= ORIG and
\* till > ORIG included), reads no source index >= ORIG and writes no output
\* index >= SLICE_SIZE.
SizedSliceInBounds ==
    call.op = "sized_slice" =>
        /\ ~ret.panic
        /\ \A r \in ret.reads : r[1] = "original" /\ r[2] < Len(call.original)
        /\ \A w \in ret.writes : w[1] = "buffer" /\ w[2] < call.SLICE_SIZE

\* A sized_slice call that copies, with till past the end of original and
\* more source elements than the slice holds.
SizedSliceInBoundsWitness ==
    /\ call.op = "sized_slice"
    /\ ~ret.panic
    /\ call.till > Len(call.original)
    /\ call.SLICE_SIZE > 0
    /\ call.from + call.SLICE_SIZE < Len(call.original)
    /\ Cardinality(ret.reads) = call.SLICE_SIZE
    /\ Cardinality(ret.writes) = call.SLICE_SIZE

\* C8: sized_slice returns out of length SLICE_SIZE with out[k] = seq[from + k]
\* for every k with from + k < min(till, ORIG) and fill for every other k; all
\* fill when from >= ORIG or from >= till.
SizedSliceValue ==
    call.op = "sized_slice" =>
        LET seq == call.original
            end == IF call.till < Len(seq) THEN call.till ELSE Len(seq)
        IN  /\ ~ret.panic
            /\ ret.value = [j \in 1..call.SLICE_SIZE |->
                   IF call.from + (j - 1) < end THEN seq[call.from + j] ELSE call.fill]
            /\ (call.from >= Len(seq) \/ call.from >= call.till)
                   => ret.value = Repeat(call.fill, call.SLICE_SIZE)

\* A sized_slice call that copies from the middle of original up to till and
\* pads the rest of the slice with a fill that is no element of original.
SizedSliceValueWitness ==
    /\ call.op = "sized_slice"
    /\ ~ret.panic
    /\ call.from > 0
    /\ call.from < call.till
    /\ call.till < Len(call.original)
    /\ call.SLICE_SIZE > call.till - call.from
    /\ call.fill \notin {call.original[k] : k \in 1..Len(call.original)}
    /\ ret.value[1] = call.original[call.from + 1]
    /\ ret.value[call.SLICE_SIZE] = call.fill

\* C9: join returns out of length RESULT with out[i] = left[i] for
\* i < min(L, RESULT), out[i] = right[i - L] for L <= i < min(L + R, RESULT)
\* and fill for every remaining i; when L >= RESULT the result is the first
\* RESULT elements of left and holds nothing of right.
JoinValue ==
    call.op = "join" =>
        LET L == Len(call.left)
            R == Len(call.right)
        IN  /\ ~ret.panic
            /\ ret.value = [j \in 1..call.RESULT_SIZE |->
                   IF j - 1 < L THEN call.left[j]
                   ELSE IF j - 1 < L + R THEN call.right[j - L]
                   ELSE call.fill]
            /\ L >= call.RESULT_SIZE =>
                   /\ ret.value = SubSeq(call.left, 1, call.RESULT_SIZE)
                   /\ \A r \in ret.reads : r[1] # "right"

\* A join whose result holds all of left, only a part of right and no fill.
JoinValueWitness ==
    /\ call.op = "join"
    /\ ~ret.panic
    /\ Len(call.left) > 0
    /\ call.RESULT_SIZE > Len(call.left)
    /\ call.RESULT_SIZE < Len(call.left) + Len(call.right)
    /\ ret.value[call.RESULT_SIZE] = call.right[call.RESULT_SIZE - Len(call.left)]
    /\ call.left[1] # call.right[1]

\* C10: splice returns (left, right) with left[i] = seq[i] for
\* i < min(LEFT, ORIG) and fill otherwise, right[j] = seq[LEFT + j] for
\* LEFT + j < ORIG and fill otherwise; no element of seq at an index
\* >= LEFT + RIGHT is used, and right is all fill when ORIG <= LEFT.
SpliceValue ==
    call.op = "splice" =>
        LET seq == call.original
        IN  /\ ~ret.panic
            /\ ret.left = [j \in 1..call.LEFT_SIZE |->
                   IF j - 1 < Len(seq) THEN seq[j] ELSE call.fill]
            /\ ret.right = [j \in 1..call.RIGHT_SIZE |->
                   IF call.LEFT_SIZE + j - 1 < Len(seq)
                   THEN seq[call.LEFT_SIZE + j] ELSE call.fill]
            /\ \A r \in ret.reads : r[2] < call.LEFT_SIZE + call.RIGHT_SIZE
            /\ Len(seq) <= call.LEFT_SIZE => ret.right = Repeat(call.fill, call.RIGHT_SIZE)

\* A splice that fills left, fills a part of right from original and pads
\* the rest of right.
SpliceValueWitness ==
    /\ call.op = "splice"
    /\ ~ret.panic
    /\ call.LEFT_SIZE > 0
    /\ Len(call.original) > call.LEFT_SIZE
    /\ Len(call.original) < call.LEFT_SIZE + call.RIGHT_SIZE
    /\ call.fill \notin {call.original[k] : k \in 1..Len(call.original)}
    /\ ret.right[1] = call.original[call.LEFT_SIZE + 1]
    /\ ret.right[call.RIGHT_SIZE] = call.fill
\* What array_resize returns for what array_resize returned, resized back
\* to the length of the first input, with its own fill.
ResizeBack(anyFill) == array_resize(ret.value, anyFill, Len(call.array))

\* C11: array_resize round trip: for every seq of length IN, every OUT >= IN
\* and every two fill values, resizing seq to OUT with fill and the result
\* back to IN with anyFill returns seq exactly; anyFill is in the result only
\* where seq already holds it.
ArrayResizeRoundTrip ==
    (call.op = "array_resize" /\ call.OUTPUT_SIZE >= Len(call.array)) =>
        /\ ~ret.panic
        /\ Len(ret.value) = call.OUTPUT_SIZE
        /\ \A anyFill \in Fills :
               /\ ~ResizeBack(anyFill).panic
               /\ ResizeBack(anyFill).value = call.array
               /\ \A j \in 1..Len(call.array) :
                      ResizeBack(anyFill).value[j] = anyFill => call.array[j] = anyFill

\* An array_resize to a longer array, padded with a fill that is no element
\* of the input, resized back with yet another fill.
ArrayResizeRoundTripWitness ==
    /\ call.op = "array_resize"
    /\ ~ret.panic
    /\ Len(call.array) > 1
    /\ call.OUTPUT_SIZE > Len(call.array)
    /\ call.fill \notin {call.array[k] : k \in 1..Len(call.array)}
    /\ ret.value[call.OUTPUT_SIZE] = call.fill
    /\ \E anyFill \in Fills \ {call.fill} : ResizeBack(anyFill).value = call.array
StoppingOps == {"initialize_till", "initialize_from_option", "initialize_from_result"}

\* The stop test of the call at index i: f(i) == till, f(i) is None, f(i) is
\* Err.
StopTest(i) ==
    CASE call.op = "initialize_till" -> call.f[i + 1] = call.till
      [] call.op = "initialize_from_option" -> call.f[i + 1] = None
      [] call.op = "initialize_from_result" ->
             \E e \in Elems : call.f[i + 1] = Err(e)

\* The element f(j) produces: the value itself, the value in Some, the value
\* in Ok.
Produced(j) ==
    CASE call.op = "initialize_till" -> call.f[j + 1]
      [] call.op = "initialize_from_option" ->
             CHOOSE v \in Elems : call.f[j + 1] = Some(v)
      [] call.op = "initialize_from_result" ->
             CHOOSE v \in Elems : call.f[j + 1] = Ok(v)

\* The least index below OUTPUT_SIZE at which the stop test holds, or
\* OUTPUT_SIZE.
LeastStop ==
    IF \E i \in 0..(call.OUTPUT_SIZE - 1) : StopTest(i)
    THEN CHOOSE i \in 0..(call.OUTPUT_SIZE - 1) :
             StopTest(i) /\ \A k \in 0..(i - 1) : ~StopTest(k)
    ELSE call.OUTPUT_SIZE

\* C12: initialize_till, initialize_from_option and initialize_from_result
\* return as stopIndex the least i < OUTPUT_SIZE at which the stop test
\* holds, or OUTPUT_SIZE; out[j] is what f(j) produced for j < stopIndex and
\* fill for j >= stopIndex, the stopping index included.
StoppingGeneratorResult ==
    call.op \in StoppingOps =>
        /\ ~ret.panic
        /\ ret.index = LeastStop
        /\ ret.value = [j \in 1..call.OUTPUT_SIZE |->
               IF j - 1 < LeastStop THEN Produced(j - 1) ELSE call.fill]

\* An initialize_till that stops in the middle: elements before the stop,
\* then a fill that is neither the sentinel nor what f returns after it.
StoppingGeneratorResultWitness ==
    /\ call.op = "initialize_till"
    /\ ~ret.panic
    /\ call.OUTPUT_SIZE = MaxSize
    /\ ret.index = 1
    /\ call.fill # call.till
    /\ call.f[3] # call.fill
    /\ ret.value[1] = call.f[1]
    /\ ret.value[2] = call.fill
    /\ ret.value[3] = call.fill

\* C13: the three stopping generators call f at 0, 1, 2, ... in ascending
\* order, once per index, and not again after the first index at which the
\* stop test holds: stopIndex + 1 calls when the run stops at
\* stopIndex < OUTPUT_SIZE, OUTPUT_SIZE calls when it never stops.
GeneratorCallOrder ==
    call.op \in StoppingOps =>
        LET n == IF ret.index < call.OUTPUT_SIZE THEN ret.index + 1 ELSE call.OUTPUT_SIZE
        IN  /\ ret.calls = [k \in 1..n |-> k - 1]
            /\ \A k \in 1..Len(ret.calls) : \A m \in 1..(k - 1) :
                   /\ ret.calls[m] < ret.calls[k]
                   /\ ~StopTest(ret.calls[m])

\* An initialize_from_option that stops in the middle, with values f would
\* still return after the stop.
GeneratorCallOrderWitness ==
    /\ call.op = "initialize_from_option"
    /\ ~ret.panic
    /\ call.OUTPUT_SIZE = MaxSize
    /\ ret.index = 1
    /\ call.f[3] # None
    /\ ret.calls = <<0, 1>>
====
